---- MODULE Spec2Model ----
(***************************************************************************)
(* A model of the dynamic bit vector of praveenmunagapati/bitvector:       *)
(* the B-tree of packed bit-leaves (class bitvector<W>), the packed view   *)
(* and the bit view it is built on.                                        *)
(*                                                                         *)
(* The tree is modelled for the build in which assert() is compiled in     *)
(* (the test driver of the repository uses assert() as its only checking   *)
(* mechanism): a failing assertion aborts the program, which the model     *)
(* records as status = "aborted"; nothing runs after it.                   *)
(*                                                                         *)
(* A W-bit word that holds packed fields is represented by the sequence of *)
(* its fields, least significant field first, and word arithmetic on it    *)
(* (sum, difference, shift, product) is carried out field by field, the    *)
(* carry or borrow passed on to the next field: exactly the arithmetic of   *)
(* the word on the bits the fields occupy.  A leaf word is the sequence of  *)
(* its W bits, least significant bit first.                                *)
(***************************************************************************)
EXTENDS Integers, Sequences, FiniteSets

\* ------------------------------------------------------------------ bounds
\* Width in bits of the machine word of the tree (template parameter W).
W == 32

\* The first MaxMixed insert calls of a run carry any bit, the later ones a 1.
MaxMixed == 1

\* The capacities the vector is constructed with.
Capacities == {31, 100}

\* Width in bits of a word of the container of a bit view (bitview::W).
WV == 4

\* Number of container words of the bit views of the bit view runs.
MaxWords == 2

\* Largest number of bits held by the packed views of the packed view runs.
MaxBits == 6

VARIABLES
    capacity,       \* _capacity
    counter_width,  \* _counter_width
    pointer_width,  \* _pointer_width
    degree,         \* _degree
    leaves_buffer,  \* _leaves_buffer
    nodes_buffer,   \* _nodes_buffer
    size,       \* _size
    rank,       \* _rank
    height,     \* _height
    free_node,  \* _free_node
    sizes,      \* _sizes    : packed array of counter_width-bit fields
    ranks,      \* _ranks    : packed array of counter_width-bit fields
    pointers,   \* _pointers : packed array of pointer_width-bit fields
    leaves,     \* _leaves   : vector of W-bit words
    status,     \* "running", or "aborted" once an assertion has failed
    ref,        \* the reference list: the same inserts applied to a sequence
    calls,      \* number of insert calls made
    ones,       \* number of insert calls made whose bit was 1
    valid,      \* every insert call so far satisfied i <= size, size < capacity
    last,       \* the last call and what it returned to the caller
    bv,         \* the container of a bit view: its words, lowest first
    bv2,        \* the container of a second bit view
    pw,         \* _width of the packed view laid over bv
    pn,         \* the number of fields of the packed view laid over bv
    ret         \* the last call on a view and what it returned

\* The parameters the constructor derives from the capacity.
geometry == <<capacity, counter_width, pointer_width, degree, leaves_buffer,
              nodes_buffer>>
treeVars == <<geometry, size, rank, height, free_node, sizes, ranks, pointers, leaves>>
callVars == <<status, ref, calls, ones, valid, last>>
viewVars == <<bv, bv2, pw, pn, ret>>
vars == <<treeVars, callVars, viewVars>>

\* ----------------------------------------------------------- arithmetic
\* F applied to the value of v: a local variable, evaluated once.
Let(v, F(_)) == CHOOSE r \in {F(x) : x \in {v}} : TRUE

Min(a, b) == IF a < b THEN a ELSE b
Max(a, b) == IF a > b THEN a ELSE b

RECURSIVE CeilLog2(_)
CeilLog2(n) == IF n <= 1 THEN 0 ELSE 1 + CeilLog2((n + 1) \div 2)

CeilSqrt(n) == CHOOSE k \in 0..n : k * k >= n /\ (k = 0 \/ (k - 1) * (k - 1) < n)

CeilDiv(a, b) == (a + b - 1) \div b

RECURSIVE SumFrom(_, _)
SumFrom(q, i) == IF i > Len(q) THEN 0 ELSE q[i] + SumFrom(q, i + 1)

SumSeq(q) == Let(q, LAMBDA v : SumFrom(v, 1))

\* -------------------------------------------------------- bit primitives
lowbits(x, n) == x % (2 ^ n)

popcount(word) == SumSeq(word)

get_bit(word, i) == IF i + 1 \in DOMAIN word THEN word[i + 1] ELSE 0

\* (word & lowmask(k)) | (b << k) | ((word & ~lowmask(k)) << 1), high bit off
insert_bit(word, k, b) ==
    IF k < Len(word)
    THEN SubSeq(word, 1, k) \o <<b>> \o SubSeq(word, k + 1, Len(word) - 1)
    ELSE word

\* A function over 1..n as a plain sequence.
Tuple(f) == f \o <<>>

Zeros(n) == Tuple([i \in 1..n |-> 0])

ZeroWord == Zeros(W)

\* The low n bits of a leaf word, as a sequence of n bits.
LowBitsOf(word, n) == SubSeq(word \o Zeros(n), 1, n)

\* The W-bit word whose low bits are the given bits.
WordOfBits(bits) == SubSeq(bits \o ZeroWord, 1, W)

\* ------------------------------------------- words as sequences of fields
\* The n low fields, w bits each, of the integer x (two's complement).
RECURSIVE Fields(_, _, _)
Fields(x, w, n) ==
    IF n = 0 THEN <<>> ELSE <<x % (2 ^ w)>> \o Fields(x \div (2 ^ w), w, n - 1)

\* Field i (0-based) of a packed array or word.
At(arr, i) == IF i + 1 \in DOMAIN arr THEN arr[i + 1] ELSE 0

\* a + b on words of Len(a) fields of w bits, from field i on; the carry out
\* of the top is lost.
RECURSIVE AddCarry(_, _, _, _, _)
AddCarry(a, b, w, i, carry) ==
    IF i > Len(a) THEN <<>>
    ELSE <<(a[i] + At(b, i - 1) + carry) % (2 ^ w)>>
         \o AddCarry(a, b, w, i + 1, (a[i] + At(b, i - 1) + carry) \div (2 ^ w))

AddWord(a, b, w) == Let(a, LAMBDA x : Let(b, LAMBDA y : AddCarry(x, y, w, 1, 0)))

\* a - b on words of Len(a) fields of w bits, from field i on; the borrow out
\* of the top is lost.
RECURSIVE SubBorrow(_, _, _, _, _)
SubBorrow(a, b, w, i, borrow) ==
    IF i > Len(a) THEN <<>>
    ELSE <<(a[i] - At(b, i - 1) - borrow) % (2 ^ w)>>
         \o SubBorrow(a, b, w, i + 1,
                      IF a[i] - At(b, i - 1) - borrow < 0 THEN 1 ELSE 0)

SubWord(a, b, w) == Let(a, LAMBDA x : Let(b, LAMBDA y : SubBorrow(x, y, w, 1, 0)))

\* a << (k fields), within Len(a) fields.
ShiftFields(a, k) == Let(a, LAMBDA x : SubSeq(Zeros(k) \o x, 1, Len(x)))

\* mask * x, where mask has a 1 at the start of each of its Len(x) fields.
RECURSIVE MaskSum(_, _, _)
MaskSum(x, w, k) ==
    IF k = 0 THEN Zeros(Len(x))
    ELSE AddWord(MaskSum(x, w, k - 1), ShiftFields(x, k - 1), w)

MaskTimes(x, w, k) == Let(x, LAMBDA v : MaskSum(v, w, k))

\* ----------------------------------------------------------- packed array
\* The word made of the fields [begin, end).
RangeGet(arr, begin, end) ==
    Let(arr, LAMBDA a :
        IF end <= Len(a) THEN SubSeq(a, begin + 1, end)
        ELSE Tuple([i \in 1..(end - begin) |-> At(a, begin + i - 1)]))

\* Assignment of a word to the fields [begin, end).
RangeSet(arr, begin, end, word) ==
    Let(arr, LAMBDA a :
        SubSeq(SubSeq(a, 1, begin) \o SubSeq(word \o Zeros(end - begin), 1, end - begin)
                   \o SubSeq(a, end + 1, Len(a)),
               1, Len(a)))

\* ------------------------------------------------------------ constructor
leaves_count ==
    (capacity * (leaves_buffer + 1)) \div (leaves_buffer * (W - leaves_buffer))

minimum_degree == (nodes_buffer * (degree - nodes_buffer)) \div (nodes_buffer + 1)

RECURSIVE LevelSum(_)
LevelSum(level_count) ==
    LET next == CeilDiv(level_count, minimum_degree + 1)
    IN  IF next > 1 THEN next + LevelSum(next) ELSE next

nodes_count == LevelSum(leaves_count)

\* _sizes.index_mask(): a 1 at the start of every counter of a word.
index_mask == Tuple([k \in 1..degree |-> 1])

\* The flag bit of a counter.
flag_bit == 2 ^ (counter_width - 1)

\* ------------------------------------------------------------ tree state
\* The state of the vector as one record, threaded through the operations;
\* err is set by the first assertion that fails and freezes the record.
State == [sizes |-> sizes, ranks |-> ranks, pointers |-> pointers,
          leaves |-> leaves, size |-> size, rank |-> rank, height |-> height,
          free_node |-> free_node, err |-> FALSE]

Abort(s) == [s EXCEPT !.err = TRUE]

alloc_node(s) ==
    IF s.free_node < Len(s.sizes)
    THEN [s |-> [s EXCEPT !.free_node = s.free_node + 1], index |-> s.free_node]
    ELSE [s |-> Abort(s), index |-> 0]

alloc_leaf(s) ==
    [s |-> [s EXCEPT !.leaves = Append(s.leaves, ZeroWord)], index |-> Len(s.leaves)]

root(s) == [index |-> 0, height |-> s.height, size |-> s.size, rank |-> s.rank]

\* ------------------------------------------------------------ subtree_ref
is_leaf(t) == t.height = 0
is_node(t) == t.height > 0

\* assert(t.is_root()): both assertions inside is_root hold and it returns true
is_root(s, t) == t.index = 0 /\ t.height = s.height

\* The assertions of sizes(begin, end) and ranks(begin, end).
counters_ok(t, begin, end) == is_node(t) /\ begin < degree /\ end <= degree

\* The assertions of pointers(begin, end).
pointers_ok(t, begin, end) ==
    is_node(t) /\ (begin = end \/ begin < degree + 1) /\ end <= degree + 1

\* sizes(k): the value of the size field k, the flag bit stripped.
sizes_at(s, t, k) == lowbits(At(s.sizes, t.index * degree + k), counter_width - 1)

ranks_at(s, t, k) == At(s.ranks, t.index * degree + k)

pointers_at(s, t, k) == At(s.pointers, t.index * (degree + 1) + k)

sizes_range(s, t, begin, end) ==
    RangeGet(s.sizes, t.index * degree + begin, t.index * degree + end)

ranks_range(s, t, begin, end) ==
    RangeGet(s.ranks, t.index * degree + begin, t.index * degree + end)

pointers_range(s, t, begin, end) ==
    RangeGet(s.pointers, t.index * (degree + 1) + begin, t.index * (degree + 1) + end)

set_sizes(s, t, begin, end, word) ==
    [s EXCEPT !.sizes =
        RangeSet(s.sizes, t.index * degree + begin, t.index * degree + end, word)]

set_ranks(s, t, begin, end, word) ==
    [s EXCEPT !.ranks =
        RangeSet(s.ranks, t.index * degree + begin, t.index * degree + end, word)]

set_pointers(s, t, begin, end, word) ==
    [s EXCEPT !.pointers =
        RangeSet(s.pointers, t.index * (degree + 1) + begin,
                 t.index * (degree + 1) + end, word)]

\* The assertions of child(k).
child_ok(s, t, k) == is_node(t) /\ k <= degree /\ pointers_at(s, t, k) # 0

child(s, t, k) ==
    [index  |-> pointers_at(s, t, k),
     height |-> t.height - 1,
     size   |-> IF k = 0 THEN sizes_at(s, t, k)
                ELSE IF k = degree THEN t.size - sizes_at(s, t, k - 1)
                ELSE sizes_at(s, t, k) - sizes_at(s, t, k - 1),
     rank   |-> IF k = 0 THEN ranks_at(s, t, k)
                ELSE IF k = degree THEN t.rank - ranks_at(s, t, k - 1)
                ELSE ranks_at(s, t, k) - ranks_at(s, t, k - 1)]

\* The word of a leaf.
leaf(s, t) == IF t.index + 1 \in DOMAIN s.leaves THEN s.leaves[t.index + 1] ELSE ZeroWord

\* The word sizes() with the flag bit of every counter set.
flagged_sizes(s, t) ==
    Tuple([k \in 1..degree |->
        flag_bit + lowbits(At(s.sizes, t.index * degree + k - 1), counter_width - 1)])

\* A search that leaves the index relative to the node.
find_insert_point_no_offset(s, t, index) ==
    Let(SubWord(flagged_sizes(s, t),
                MaskTimes(Fields(index, counter_width, degree), counter_width, degree),
                counter_width), LAMBDA diff :
    Let(degree - Cardinality({k \in 1..degree : diff[k] >= flag_bit}), LAMBDA ch :
        [child |-> ch, new_index |-> index]))

\* degree - popcount(size_flag_mask & (sizes() - index_mask * index)), the
\* counters compared with their flag bits set.
find_insert_point(s, t, index) ==
    Let(SubWord(flagged_sizes(s, t),
                MaskTimes(Fields(index, counter_width, degree), counter_width, degree),
                counter_width), LAMBDA diff :
    Let(degree - Cardinality({k \in 1..degree : diff[k] >= flag_bit}), LAMBDA ch :
        [child |-> ch,
         new_index |-> IF ch > 0 THEN index - sizes_at(s, t, ch - 1) ELSE index]))

\* find(index); ok is FALSE when one of its assertions fails.
find(s, t, index) ==
    Let(find_insert_point(s, t, index), LAMBDA f :
        IF ~(is_node(t) /\ child_ok(s, t, f.child))
        THEN [child |-> f.child, new_index |-> f.new_index, ok |-> FALSE]
        ELSE IF f.new_index = child(s, t, f.child).size
        THEN [child |-> f.child + 1, new_index |-> 0, ok |-> f.child + 1 < degree + 1]
        ELSE [child |-> f.child, new_index |-> f.new_index, ok |-> f.child < degree + 1])

nkeys(s, t) == Min(find_insert_point(s, t, t.size - 1).child + 1, degree)

\* ---------------------------------------------------------------- access
\* What access returns to its caller: a bit, the out_of_range exception, or
\* nothing because an assertion failed on the way.

\* access with the range test off by one: index = size is let through.
RECURSIVE access_past_end(_, _, _)
access_past_end(s, t, index) ==
    IF index > t.size THEN [res |-> "OutOfRange", bit |-> 0]
    ELSE IF is_leaf(t) THEN [res |-> "bit", bit |-> get_bit(leaf(s, t), index)]
    ELSE Let(find(s, t, index), LAMBDA f :
             IF ~f.ok \/ ~child_ok(s, t, f.child)
             THEN [res |-> "assert", bit |-> 0]
             ELSE Let(child(s, t, f.child), LAMBDA c :
                      access_past_end(s, c, f.new_index)))

RECURSIVE access(_, _, _)
access(s, t, index) ==
    IF index >= t.size THEN [res |-> "OutOfRange", bit |-> 0]
    ELSE IF is_leaf(t) THEN [res |-> "bit", bit |-> get_bit(leaf(s, t), index)]
    ELSE Let(find(s, t, index), LAMBDA f :
             IF ~f.ok \/ ~child_ok(s, t, f.child)
             THEN [res |-> "assert", bit |-> 0]
             ELSE Let(child(s, t, f.child), LAMBDA c : access(s, c, f.new_index)))

\* ----------------------------------------------------------- insert_child
\* sizes(k, degree) <<= width; ranks(k, degree) <<= width;
\* pointers(k + 1, degree + 1) <<= width; sizes(k) = s; ranks(k) = r
shift_keys(s, t, k) ==
    Let(sizes_at(s, t, k), LAMBDA sv :
    Let(ranks_at(s, t, k), LAMBDA rv :
    Let(set_sizes(s, t, k, degree, ShiftFields(sizes_range(s, t, k, degree), 1)),
        LAMBDA s1 :
    Let(set_ranks(s1, t, k, degree, ShiftFields(ranks_range(s1, t, k, degree), 1)),
        LAMBDA s2 :
    Let(set_pointers(s2, t, k + 1, degree + 1,
                     ShiftFields(pointers_range(s2, t, k + 1, degree + 1), 1)),
        LAMBDA s3 :
    Let(set_sizes(s3, t, k, k + 1, Fields(sv, counter_width, 1)), LAMBDA s4 :
        set_ranks(s4, t, k, k + 1, Fields(rv, counter_width, 1))))))))

\* A new empty child at position k, the later keys shifted right.
insert_child(s, t, k) ==
    IF s.err THEN s
    ELSE IF ~(is_node(t) /\ k <= degree) THEN Abort(s)
    ELSE Let(IF k < degree THEN shift_keys(s, t, k) ELSE s, LAMBDA s1 :
         Let(IF t.height = 1 THEN alloc_leaf(s1) ELSE alloc_node(s1), LAMBDA a :
             IF a.s.err THEN a.s
             ELSE set_pointers(a.s, t, k, k + 1, Fields(a.index, pointer_width, 1))))

\* ------------------------------------------------- find_adjacent_children
\* The loop that slides the window; count is the vector of count(0..degree).
RECURSIVE slide_window(_, _, _, _, _, _, _, _)
slide_window(count, ch, begin, end, freeslots, maxfreeslots, wbegin, wend) ==
    IF begin < ch /\ end < degree + 1
    THEN Let(freeslots - count[begin + 1] + count[end], LAMBDA f :
             IF f > maxfreeslots
             THEN slide_window(count, ch, begin + 1, end + 1, f, f, begin + 1, end + 1)
             ELSE slide_window(count, ch, begin + 1, end + 1, f, maxfreeslots,
                               wbegin, wend))
    ELSE [begin |-> begin, end |-> end, maxfreeslots |-> maxfreeslots,
          wbegin |-> wbegin, wend |-> wend]

\* count(i) for i = 0..degree, as a sequence.
free_slots(s, t, leafcase, max_count) ==
    Tuple([i \in 1..(degree + 1) |->
        IF pointers_at(s, t, i - 1) = 0 THEN max_count
        ELSE IF leafcase THEN W - child(s, t, i - 1).size
        ELSE Let(child(s, t, i - 1), LAMBDA c : degree - nkeys(s, c))])

\* The window, the count of used slots in it, and whether the assertions held.
find_adjacent_children(s, t, ch) ==
    Let(t.height = 1, LAMBDA leafcase :
    Let(IF leafcase THEN leaves_buffer ELSE nodes_buffer, LAMBDA buffer :
    Let(IF leafcase THEN W ELSE degree, LAMBDA max_count :
    Let(free_slots(s, t, leafcase, max_count), LAMBDA count :
    Let(IF ch > buffer THEN ch - buffer - 1 ELSE 0, LAMBDA begin :
    Let(Min(begin + buffer, degree + 1), LAMBDA end :
    Let(SumSeq(SubSeq(count, begin + 1, end)), LAMBDA freeslots :
    Let(slide_window(count, ch, begin, end, freeslots, freeslots, begin, end),
        LAMBDA w :
        [begin |-> w.wbegin, end |-> w.wend,
         count |-> max_count * buffer - w.maxfreeslots,
         ok    |-> child_ok(s, t, ch) /\ w.begin <= ch /\ ch < w.end]))))))))

\* ------------------------------------------------------ redistribute_bits
set_leaf(s, index, word) ==
    IF index + 1 \in DOMAIN s.leaves THEN [s EXCEPT !.leaves[index + 1] = word] ELSE s

\* The scratch view: the used bits of the leaves of the window, in order.
RECURSIVE gather_bits(_, _, _, _)
gather_bits(s, t, i, end) ==
    IF i >= end THEN <<>>
    ELSE (IF pointers_at(s, t, i) # 0
          THEN Let(child(s, t, i), LAMBDA c : LowBitsOf(leaf(s, c), c.size))
          ELSE <<>>) \o gather_bits(s, t, i + 1, end)

\* view(p, p + n)
view_range(view, p, n) == SubSeq(view \o Zeros(p + n), p + 1, p + n)

\* t.child(i).leaf() = leaf; sizes(i, degree) += p; ranks(i, degree) += popcnt
store_leaf(s, t, i, lf, p, popcnt) ==
    Let(set_leaf(s, child(s, t, i).index, lf), LAMBDA s1 :
        IF i < degree
        THEN Let(set_sizes(s1, t, i, degree,
                           AddWord(sizes_range(s1, t, i, degree),
                                   Fields(p, counter_width, degree - i),
                                   counter_width)), LAMBDA s2 :
                 set_ranks(s2, t, i, degree,
                           AddWord(ranks_range(s2, t, i, degree),
                                   Fields(popcnt, counter_width, degree - i),
                                   counter_width)))
        ELSE s1)

RECURSIVE distribute_bits(_, _, _, _, _, _, _, _, _, _)
distribute_bits(s, t, view, i, end, bits_per_leaf, rem, p, popcnt, count) ==
    IF s.err THEN s
    ELSE IF i >= end THEN (IF count = 0 THEN s ELSE Abort(s))
    ELSE Let(bits_per_leaf + (IF rem > 0 THEN 1 ELSE 0), LAMBDA n :
         Let(IF rem > 0 THEN rem - 1 ELSE 0, LAMBDA rem1 :
         Let(IF pointers_at(s, t, i) = 0 THEN insert_child(s, t, i) ELSE s, LAMBDA s1 :
             IF s1.err THEN s1
             ELSE IF ~child_ok(s1, t, i) THEN Abort(s1)
             ELSE Let(WordOfBits(view_range(view, p, n)), LAMBDA lf :
                  Let(IF i < degree THEN p + n ELSE p, LAMBDA p1 :
                  Let(IF i < degree THEN popcnt + popcount(lf) ELSE popcnt, LAMBDA pc1 :
                  Let(store_leaf(s1, t, i, lf, p1, pc1), LAMBDA s2 :
                      distribute_bits(s2, t, view, i + 1, end, bits_per_leaf, rem1,
                                      p1, pc1, count - n))))))))

\* if(begin > 0 && t.pointers(begin - 1)) { sizes(begin, end) = ...; ranks ... }
\* followed by t.clear_keys(begin, end)
reset_keys(s, t, begin, end) ==
    Let(IF begin > 0 /\ pointers_at(s, t, begin - 1) # 0
        THEN Let(child(s, t, begin - 1), LAMBDA c :
             Let(set_sizes(s, t, begin, end,
                           MaskTimes(Fields(c.size, counter_width, end - begin),
                                     counter_width, end - begin)), LAMBDA s1 :
                 set_ranks(s1, t, begin, end,
                           MaskTimes(Fields(c.rank, counter_width, end - begin),
                                     counter_width, end - begin))))
        ELSE s, LAMBDA s0 :
    Let(set_sizes(s0, t, begin, end, Zeros(end - begin)), LAMBDA s1 :
        set_ranks(s1, t, begin, end, Zeros(end - begin))))

redistribute_bits(s, t, begin, end, count) ==
    IF s.err THEN s
    ELSE IF ~(end - begin = leaves_buffer \/ end - begin = leaves_buffer + 1)
    THEN Abort(s)
    ELSE IF ~counters_ok(t, begin, end) THEN Abort(s)
    ELSE Let(gather_bits(s, t, begin, end), LAMBDA view :
         Let(reset_keys(s, t, begin, end), LAMBDA s1 :
             distribute_bits(s1, t, view, begin, end, count \div (end - begin),
                             count % (end - begin), 0, 0, count)))

\* ------------------------------------------------------ redistribute_keys
\* The (size, rank, ptr) of child slot c of the node.
key_of(s, node, c) ==
    Let(child(s, node, c), LAMBDA k :
        [size |-> k.size, rank |-> k.rank, ptr |-> pointers_at(s, node, c)])

\* The (size, rank, ptr) of every child slot of the nodes of the window.
gather_keys(s, t, begin, end) ==
    Tuple([n \in 1..((end - begin) * (degree + 1)) |->
        Let(child(s, t, begin + (n - 1) \div (degree + 1)), LAMBDA node :
            key_of(s, node, (n - 1) % (degree + 1)))])

\* The assertions of the calls of child() made while gathering.
gather_keys_ok(s, t, begin, end) ==
    \A i \in begin..(end - 1) :
        /\ child_ok(s, t, i)
        /\ \A c \in 0..degree : child_ok(s, child(s, t, i), c)

\* pointers(j) = ptr; sizes(j, degree) += index_mask * size; ranks likewise
add_key(s, node, j, e) ==
    Let(set_pointers(s, node, j, j + 1, Fields(e.ptr, pointer_width, 1)), LAMBDA s1 :
    Let(set_sizes(s1, node, j, degree,
                  AddWord(sizes_range(s1, node, j, degree),
                          MaskTimes(Fields(e.size, counter_width, degree - j),
                                    counter_width, degree - j),
                          counter_width)), LAMBDA s2 :
        set_ranks(s2, node, j, degree,
                  AddWord(ranks_range(s2, node, j, degree),
                          MaskTimes(Fields(e.rank, counter_width, degree - j),
                                    counter_width, degree - j),
                          counter_width))))

RECURSIVE fill_keys(_, _, _, _, _, _)
fill_keys(s, node, ptrs, p, j, n) ==
    IF s.err \/ j >= n THEN s
    ELSE IF ~(pointers_ok(node, j, j + 1) /\ counters_ok(node, j, degree)) THEN Abort(s)
    ELSE Let(IF p + j + 1 \in DOMAIN ptrs THEN ptrs[p + j + 1]
             ELSE [size |-> 0, rank |-> 0, ptr |-> 0], LAMBDA e :
         Let(add_key(s, node, j, e), LAMBDA s1 :
             fill_keys(s1, node, ptrs, p, j + 1, n)))

RECURSIVE distribute_keys(_, _, _, _, _, _, _, _, _)
distribute_keys(s, t, ptrs, i, end, keys_per_node, rem, p, count) ==
    IF s.err THEN s
    ELSE IF i >= end THEN (IF count = 0 THEN s ELSE Abort(s))
    ELSE IF ~child_ok(s, t, i) THEN Abort(s)
    ELSE Let(keys_per_node + (IF rem > 0 THEN 1 ELSE 0), LAMBDA n :
         Let(IF rem > 0 THEN rem - 1 ELSE 0, LAMBDA rem1 :
         Let(child(s, t, i), LAMBDA node :
         Let(set_sizes(s, node, 0, degree, Zeros(degree)), LAMBDA s1 :
         Let(set_ranks(s1, node, 0, degree, Zeros(degree)), LAMBDA s2 :
         Let(fill_keys(s2, node, ptrs, p, 0, n), LAMBDA s3 :
             distribute_keys(s3, t, ptrs, i + 1, end, keys_per_node, rem1, p + n,
                             count - n)))))))

redistribute_keys(s, t, begin, end, count) ==
    IF s.err THEN s
    ELSE IF ~(end - begin = nodes_buffer \/ end - begin = nodes_buffer + 1)
    THEN Abort(s)
    ELSE IF ~gather_keys_ok(s, t, begin, end) THEN Abort(s)
    ELSE Let(Tuple([n \in 1..(nodes_buffer * (degree + 1)) |->
                      [size |-> 0, rank |-> 0, ptr |-> 0]])
                 \o gather_keys(s, t, begin, end), LAMBDA ptrs :
             distribute_keys(s, t, ptrs, begin, end, count \div (end - begin),
                             count % (end - begin), 0, count))

\* ----------------------------------------------------------------- insert
\* sizes(child, degree) += index_mask; ranks(child, degree) += index_mask * bit
update_counters(s, t, ch, bit) ==
    Let(set_sizes(s, t, ch, degree,
                  AddWord(sizes_range(s, t, ch, degree),
                          SubSeq(index_mask, 1, degree - ch), counter_width)),
        LAMBDA s1 :
        set_ranks(s1, t, ch, degree,
                  AddWord(ranks_range(s1, t, ch, degree),
                          MaskTimes(Fields(bit, counter_width, degree - ch),
                                    counter_width, degree - ch),
                          counter_width)))

\* A copy that leaves the pointers behind.
copy_counters(s, t, index) ==
    Let([t EXCEPT !.index = index], LAMBDA r :
    Let(set_sizes(s, r, 0, degree, sizes_range(s, t, 0, degree)), LAMBDA s1 :
        set_ranks(s1, r, 0, degree, ranks_range(s1, t, 0, degree))))

\* subtree_ref old_root = t.copy(): the keys of t in a newly allocated node.
copy(s, t, index) ==
    Let([t EXCEPT !.index = index], LAMBDA r :
    Let(set_sizes(s, r, 0, degree, sizes_range(s, t, 0, degree)), LAMBDA s1 :
    Let(set_ranks(s1, r, 0, degree, ranks_range(s1, t, 0, degree)), LAMBDA s2 :
        set_pointers(s2, r, 0, degree + 1, pointers_range(s2, t, 0, degree + 1)))))

\* The root emptied and made the parent of the copy at old_root.
empty_root(s, t, old_root) ==
    Let(set_sizes(s, t, 0, degree,
                  MaskTimes(Fields(t.size, counter_width, degree),
                            counter_width, degree)), LAMBDA s1 :
    Let(set_ranks(s1, t, 0, degree,
                  MaskTimes(Fields(t.rank, counter_width, degree),
                            counter_width, degree)), LAMBDA s2 :
    Let(set_pointers(s2, t, 0, degree + 1, Zeros(degree + 1)), LAMBDA s3 :
    Let(set_pointers(s3, t, 0, 1, Fields(old_root, pointer_width, 1)), LAMBDA s4 :
        [s4 EXCEPT !.height = s4.height + 1]))))

\* The full root is copied into a new node and the root made its parent.
split_root(s, t) ==
    IF ~is_root(s, t) THEN Abort(s)
    ELSE Let(alloc_node(s), LAMBDA a :
             IF a.s.err THEN a.s
             ELSE Let(copy(a.s, t, a.index), LAMBDA s1 :
                  Let(empty_root(s1, t, a.index), LAMBDA s2 :
                      IF nkeys(s2, root(s2)) # 1 THEN Abort(s2)
                      ELSE IF ~child_ok(s2, root(s2), 0) THEN Abort(s2)
                      ELSE IF nkeys(s2, child(s2, root(s2), 0)) # degree THEN Abort(s2)
                      ELSE s2)))

\* A full leaf that is left as it is.
full_leaf_skipped(s, t, ch) == s

\* The leaf child ch of t is full: redistribute, after a split if needed.
full_leaf(s, t, ch) ==
    Let(find_adjacent_children(s, t, ch), LAMBDA w :
        IF ~w.ok THEN Abort(s)
        ELSE IF w.count >= leaves_buffer * (W - leaves_buffer)
        THEN IF ~(nkeys(s, t) < degree) THEN Abort(s)
             ELSE Let(insert_child(s, t, w.end), LAMBDA s1 :
                      redistribute_bits(s1, t, w.begin, w.end + 1, w.count))
        ELSE redistribute_bits(s, t, w.begin, w.end, w.count))

\* The node child ch of t is full: always split, then redistribute.
full_node(s, t, ch) ==
    Let(find_adjacent_children(s, t, ch), LAMBDA w :
        IF ~w.ok THEN Abort(s)
        ELSE IF ~(nkeys(s, t) < degree) THEN Abort(s)
        ELSE Let(insert_child(s, t, w.end), LAMBDA s1 :
                 redistribute_keys(s1, t, w.begin, w.end + 1, w.count)))

\* leaf = insert_bit(leaf, new_index, bit); ++_size; _rank += bit
insert_into_leaf(s, lf, new_index, bit) ==
    Let(set_leaf(s, lf.index, insert_bit(leaf(s, lf), new_index, bit)), LAMBDA s1 :
        [s1 EXCEPT !.size = s1.size + 1, !.rank = s1.rank + bit])

\* Is the child ch of t full (a leaf of W bits, a node of degree keys)?
is_full(s, t, ch) ==
    Let(child(s, t, ch), LAMBDA c :
        IF t.height = 1 THEN c.size = W ELSE nkeys(s, c) = degree)

RECURSIVE insert(_, _, _, _)
insert(s, t, index, bit) ==
    IF s.err THEN s
    ELSE IF ~is_node(t) THEN Abort(s)
    ELSE IF nkeys(s, t) = degree
    THEN Let(split_root(s, t), LAMBDA s1 :
             IF s1.err THEN s1
             ELSE Let(root(s1), LAMBDA r : insert(s1, r, index, bit)))
    ELSE Let(find_insert_point(s, t, index), LAMBDA f :
         IF ~child_ok(s, t, f.child) THEN Abort(s)
         ELSE
         Let(is_full(s, t, f.child), LAMBDA full :
         Let(IF ~full THEN s
             ELSE IF t.height = 1 THEN full_leaf(s, t, f.child)
             ELSE full_node(s, t, f.child), LAMBDA s1 :
             IF s1.err THEN s1
             ELSE
             Let(IF full THEN find_insert_point(s1, t, index) ELSE f, LAMBDA g :
                 IF ~counters_ok(t, g.child, degree) THEN Abort(s1)
                 ELSE
                 Let(update_counters(s1, t, g.child, bit), LAMBDA s2 :
                     IF ~child_ok(s2, t, g.child) THEN Abort(s2)
                     ELSE
                     Let(child(s2, t, g.child), LAMBDA c :
                         IF t.height = 1
                         THEN insert_into_leaf(s2, c, g.new_index, bit)
                         ELSE insert(s2, c, g.new_index, bit)))))))

\* The course of insert(t, index, bit): the root splits it makes, the levels it
\* descends, and whether its assertions on the shape of the tree hold where
\* it evaluates them: a full subtree at its entry is the root, the parent of a
\* child that is split has a free key, and the child it descends into after a
\* redistribution has room.
RECURSIVE insert_path(_, _, _, _, _)
insert_path(s, t, index, bit, p) ==
    IF s.err \/ ~is_node(t) THEN p
    ELSE IF nkeys(s, t) = degree
    THEN Let([p EXCEPT !.splits = @ + 1, !.root_ok = @ /\ is_root(s, t)], LAMBDA p1 :
         Let(split_root(s, t), LAMBDA s1 :
             IF s1.err \/ p1.splits > 2 THEN p1
             ELSE insert_path(s1, root(s1), index, bit, p1)))
    ELSE Let(find_insert_point(s, t, index), LAMBDA f :
         IF ~child_ok(s, t, f.child) THEN p
         ELSE
         Let(is_full(s, t, f.child), LAMBDA full :
         Let(IF ~full THEN FALSE
             ELSE Let(find_adjacent_children(s, t, f.child), LAMBDA w :
                      w.ok /\ (t.height = 1 =>
                                w.count >= leaves_buffer * (W - leaves_buffer))),
             LAMBDA split :
         Let([p EXCEPT !.parent_ok = @ /\ (split => nkeys(s, t) < degree)], LAMBDA p1 :
         Let(IF ~full THEN s
             ELSE IF t.height = 1 THEN full_leaf(s, t, f.child)
             ELSE full_node(s, t, f.child), LAMBDA s1 :
             IF s1.err THEN p1
             ELSE
             Let(IF full THEN find_insert_point(s1, t, index) ELSE f, LAMBDA g :
             Let([p1 EXCEPT !.room_ok = @ /\ (full => child_ok(s1, t, g.child)
                                                      /\ ~is_full(s1, t, g.child)),
                            !.moved = @ \/ full], LAMBDA p2 :
                 IF ~counters_ok(t, g.child, degree) THEN p2
                 ELSE
                 Let(update_counters(s1, t, g.child, bit), LAMBDA s2 :
                     IF ~child_ok(s2, t, g.child) THEN p2
                     ELSE IF t.height = 1 THEN [p2 EXCEPT !.levels = @ + 1]
                     ELSE insert_path(s2, child(s2, t, g.child), g.new_index, bit,
                                      [p2 EXCEPT !.levels = @ + 1])))))))))

\* The course of insert(index, bit) from the root.
path_of(index, bit) ==
    insert_path(State, root(State), index, bit,
                [splits |-> 0, levels |-> 0, root_ok |-> TRUE, parent_ok |-> TRUE,
                 room_ok |-> TRUE, moved |-> FALSE])

\* ------------------------------------------------------------ construction
\* The arrays and counters as resize() and the member initialisers leave them.
Allocated ==
    [sizes    |-> Zeros(nodes_count * degree),
     ranks    |-> Zeros(nodes_count * degree),
     pointers |-> Zeros(nodes_count * (degree + 1)),
     leaves   |-> <<>>, size |-> 0, rank |-> 0, height |-> 1,
     free_node |-> 0, err |-> FALSE]

\* bitvector(capacity): the null leaf, the root node, the first leaf.
Constructed ==
    Let(alloc_leaf(Allocated), LAMBDA a :
    Let(alloc_node(a.s), LAMBDA b :
    Let(root(b.s), LAMBDA r : insert_child(b.s, r, 0))))

NoCall == [op |-> "none", index |-> 0, bit |-> 0, res |-> "none"]

\* No view is in use.
NoView == bv = <<>> /\ bv2 = <<>> /\ pw = 0 /\ pn = 0 /\ ret = [op |-> "none"]

\* The vector as its constructor leaves it, for a capacity of the given set.
Geometry(caps) ==
    /\ capacity \in caps
    /\ counter_width = CeilLog2(capacity) + 1
    /\ degree = W \div counter_width
    /\ leaves_buffer = Min(Max(CeilSqrt(W) - 1, 1), degree)
    /\ nodes_buffer = Max(CeilSqrt(degree) - 1, 1)
    /\ pointer_width = CeilLog2(Max(nodes_count, leaves_count + 1))

Built(caps) ==
    /\ Geometry(caps)
    /\ \E c \in {Constructed} :
          /\ sizes = c.sizes
          /\ ranks = c.ranks
          /\ pointers = c.pointers
          /\ leaves = c.leaves
          /\ size = c.size
          /\ rank = c.rank
          /\ height = c.height
          /\ free_node = c.free_node
          /\ status = IF c.err THEN "aborted" ELSE "running"
    /\ ref = <<>>
    /\ calls = 0
    /\ ones = 0
    /\ valid = TRUE
    /\ last = NoCall
    /\ NoView

Init == Built(Capacities)

\* --------------------------------------------------------------- actions
InsertAt(q, i, b) == SubSeq(q, 1, i) \o <<b>> \o SubSeq(q, i + 1, Len(q))

\* The indices the callers pass: the head, the tail, one past the tail.
Indices == {0, size, size + 1}

\* bitvector::insert(index, bit)
Insert(index, bit) ==
    /\ status = "running"
    /\ valid
    /\ calls >= MaxMixed => bit = 1
    /\ \E r \in {insert(State, root(State), index, bit)} :
          /\ sizes' = r.sizes
          /\ ranks' = r.ranks
          /\ pointers' = r.pointers
          /\ leaves' = r.leaves
          /\ size' = r.size
          /\ rank' = r.rank
          /\ height' = r.height
          /\ free_node' = r.free_node
          /\ status' = IF r.err THEN "aborted" ELSE "running"
          /\ last' = [op |-> "insert", index |-> index, bit |-> bit,
                      res |-> IF r.err THEN "assert" ELSE "returned"]
    /\ ref' = IF index <= size /\ size < capacity THEN InsertAt(ref, index, bit) ELSE ref
    /\ valid' = (index <= size /\ size < capacity)
    /\ calls' = calls + 1
    /\ ones' = ones + bit
    /\ UNCHANGED <<geometry, viewVars>>

\* bitvector::access(index)
Access(index) ==
    /\ status = "running"
    /\ \E r \in {access(State, root(State), index)} :
          /\ last' = [op |-> "access", index |-> index, bit |-> r.bit, res |-> r.res]
          /\ status' = IF r.res = "assert" THEN "aborted" ELSE status
    /\ UNCHANGED <<treeVars, ref, calls, ones, valid, viewVars>>

Next ==
    \/ \E index \in Indices, bit \in {0, 1} : Insert(index, bit)
    \/ \E index \in Indices : Access(index)

Spec == Init /\ [][Next]_vars

\* A capacity that is a power of two, and one whose leaves_count is 1 and
\* whose pointers are 1 bit wide.
TightCapacities == {32, 40}

InitTight == Built(TightCapacities)

\* The runs of a vector of a tight capacity.
SpecTight == InitTight /\ [][Next]_vars

\* ------------------------------------------------------- a node: the runs
\* The operations on a node are run on the root of a vector of one or two
\* levels whose child slots hold what a larger run would have left there.

\* A capacity whose nodes have 3 counters and 4 child slots.
NodeCapacities == {200}

\* What a child slot holds: 0 nothing, 1 a light child, 2 a child half full,
\* 3 a full child.
Loads == 0..3

\* The bits of a leaf and the children of a node of the given load.
leaf_load(c) == CASE c = 1 -> 3 [] c = 2 -> 20 [] c = 3 -> W [] OTHER -> 0

node_load(c) == CASE c = 1 -> 1 [] c = 2 -> 2 [] c = 3 -> degree + 1 [] OTHER -> 0

\* The n bits of the leaf in slot j.
leaf_bits(j, n) == Tuple([i \in 1..n |-> IF (i + j) % 3 = 0 THEN 1 ELSE 0])

\* The bits of every leaf below a node of two levels, and their 1 bits.
GrandBits == 2

\* A root whose children are leaves of the given loads; the leaf of slot j is
\* leaf j + 1.
NodeOfLeaves(ld) ==
    Let(Tuple([j \in 1..(degree + 1) |-> leaf_load(ld[j])]), LAMBDA am :
    Let(Tuple([j \in 1..(degree + 1) |-> SumSeq(leaf_bits(j, am[j]))]), LAMBDA pc :
        [sizes    |-> Tuple([i \in 1..(nodes_count * degree) |->
                        IF i <= degree THEN SumSeq(SubSeq(am, 1, i)) ELSE 0]),
         ranks    |-> Tuple([i \in 1..(nodes_count * degree) |->
                        IF i <= degree THEN SumSeq(SubSeq(pc, 1, i)) ELSE 0]),
         pointers |-> Tuple([i \in 1..(nodes_count * (degree + 1)) |->
                        IF i <= degree + 1 /\ ld[i] > 0 THEN i ELSE 0]),
         leaves   |-> <<ZeroWord>> \o Tuple([j \in 1..(degree + 1) |->
                        WordOfBits(leaf_bits(j, am[j]))]),
         size |-> SumSeq(am), rank |-> SumSeq(pc), height |-> 1,
         free_node |-> 1, err |-> FALSE]))

\* A root whose children are nodes of the given loads; the node of slot j is
\* node j + 1, its children are leaves of GrandBits bits, one of them a 1.
NodeOfNodes(ld) ==
    Let(Tuple([j \in 1..(degree + 1) |-> node_load(ld[j])]), LAMBDA am :
        [sizes    |-> Tuple([i \in 1..(nodes_count * degree) |->
                        Let((i - 1) \div degree, LAMBDA n :
                        Let((i - 1) % degree, LAMBDA k :
                            IF n = 0 THEN GrandBits * SumSeq(SubSeq(am, 1, k + 1))
                            ELSE IF n <= degree + 1 THEN GrandBits * Min(k + 1, am[n])
                            ELSE 0))]),
         ranks    |-> Tuple([i \in 1..(nodes_count * degree) |->
                        Let((i - 1) \div degree, LAMBDA n :
                        Let((i - 1) % degree, LAMBDA k :
                            IF n = 0 THEN SumSeq(SubSeq(am, 1, k + 1))
                            ELSE IF n <= degree + 1 THEN Min(k + 1, am[n])
                            ELSE 0))]),
         pointers |-> Tuple([i \in 1..(nodes_count * (degree + 1)) |->
                        Let((i - 1) \div (degree + 1), LAMBDA n :
                        Let((i - 1) % (degree + 1), LAMBDA k :
                            IF n = 0 THEN (IF ld[k + 1] > 0 THEN k + 1 ELSE 0)
                            ELSE IF n <= degree + 1 /\ k < am[n]
                            THEN 1 + SumSeq(SubSeq(am, 1, n - 1)) + k
                            ELSE 0))]),
         leaves   |-> <<ZeroWord>> \o Tuple([j \in 1..SumSeq(am) |->
                        WordOfBits(<<1>> \o Zeros(GrandBits - 1))]),
         size |-> GrandBits * SumSeq(am), rank |-> SumSeq(am), height |-> 2,
         free_node |-> degree + 2, err |-> FALSE])

\* The loads of the child slots of the node under test: slot 0 holds a child,
\* the children fill the first slots (insert_child shifts the later children
\* to the right and leaves no hole), and the leaves of a node of two levels
\* are no more than leaves_count.
Loadings(h) ==
    {ld \in [1..(degree + 1) -> Loads] :
        /\ ld[1] > 0
        /\ \A j \in 1..degree : ld[j] = 0 => ld[j + 1] = 0
        /\ h = 2 => SumSeq(Tuple([j \in 1..(degree + 1) |-> node_load(ld[j])]))
                        <= leaves_count}

InitNode ==
    /\ Geometry(NodeCapacities)
    /\ \E h \in {1, 2} : \E ld \in Loadings(h) :
        \E c \in {IF h = 1 THEN NodeOfLeaves(ld) ELSE NodeOfNodes(ld)} :
          /\ sizes = c.sizes
          /\ ranks = c.ranks
          /\ pointers = c.pointers
          /\ leaves = c.leaves
          /\ size = c.size
          /\ rank = c.rank
          /\ height = c.height
          /\ free_node = c.free_node
    /\ status = "running"
    /\ ref = <<>>
    /\ calls = 0
    /\ ones = 0
    /\ valid = TRUE
    /\ last = NoCall
    /\ NoView

\* root().find_insert_point(index)
FindInsertPoint(index) ==
    /\ last.op = "none"
    /\ \E f \in {find_insert_point(State, root(State), index)} :
        last' = [op |-> "find_insert_point", index |-> index, child |-> f.child,
                 new_index |-> f.new_index]
    /\ UNCHANGED <<treeVars, status, ref, calls, ones, valid, viewVars>>

\* find_adjacent_children(root(), child), for a child the root has.
FindAdjacentChildren(ch) ==
    /\ last.op = "none"
    /\ pointers_at(State, root(State), ch) # 0
    /\ \E w \in {find_adjacent_children(State, root(State), ch)} :
        /\ last' = [op |-> "find_adjacent_children", child |-> ch,
                    begin |-> w.begin, end |-> w.end, count |-> w.count,
                    res |-> IF w.ok THEN "returned" ELSE "assert"]
        /\ status' = IF w.ok THEN status ELSE "aborted"
    /\ UNCHANGED <<treeVars, ref, calls, ones, valid, viewVars>>

\* The tree variables take the values of the record r.
Becomes(r) ==
    /\ sizes' = r.sizes
    /\ ranks' = r.ranks
    /\ pointers' = r.pointers
    /\ leaves' = r.leaves
    /\ size' = r.size
    /\ rank' = r.rank
    /\ height' = r.height
    /\ free_node' = r.free_node
    /\ status' = IF r.err THEN "aborted" ELSE "running"

\* redistribute_bits(root(), begin, end, count) on a window of b or b + 1
\* leaves, count being the number of bits the window holds.
RedistributeBits(begin, end) ==
    /\ last.op = "none"
    /\ height = 1
    /\ end <= degree + 1
    /\ end - begin \in {leaves_buffer, leaves_buffer + 1}
    /\ \E n \in {SumSeq(Tuple([i \in 1..(end - begin) |->
                    IF pointers_at(State, root(State), begin + i - 1) = 0 THEN 0
                    ELSE child(State, root(State), begin + i - 1).size]))} :
       \E r \in {redistribute_bits(State, root(State), begin, end, n)} :
        /\ Becomes(r)
        /\ last' = [op |-> "redistribute_bits", begin |-> begin, end |-> end,
                    count |-> n, res |-> IF r.err THEN "assert" ELSE "returned"]
    /\ UNCHANGED <<geometry, ref, calls, ones, valid, viewVars>>

\* The number of children of the nodes in the slots [begin, end) of the root.
RECURSIVE keys_in(_, _, _)
keys_in(s, i, end) ==
    IF i >= end THEN 0
    ELSE Cardinality({c \in 0..degree : pointers_at(s, child(s, root(s), i), c) # 0})
         + keys_in(s, i + 1, end)

\* redistribute_keys(root(), begin, end, count) on a window of b' or b' + 1
\* nodes, count being the number of children the nodes of the window hold.
RedistributeKeys(begin, end) ==
    /\ last.op = "none"
    /\ height = 2
    /\ end <= degree + 1
    /\ end - begin \in {nodes_buffer, nodes_buffer + 1}
    /\ \A i \in begin..(end - 1) : pointers_at(State, root(State), i) # 0
    /\ \E n \in {keys_in(State, begin, end)} :
       \E r \in {redistribute_keys(State, root(State), begin, end, n)} :
        /\ Becomes(r)
        /\ last' = [op |-> "redistribute_keys", begin |-> begin, end |-> end,
                    count |-> n, res |-> IF r.err THEN "assert" ELSE "returned"]
    /\ UNCHANGED <<geometry, ref, calls, ones, valid, viewVars>>

\* root().insert_child(k) on a root whose last slot is free, k no further
\* than the first free slot.
InsertChild(k) ==
    /\ last.op = "none"
    /\ pointers_at(State, root(State), degree) = 0
    /\ \A j \in 0..(k - 1) : pointers_at(State, root(State), j) # 0
    /\ \E r \in {insert_child(State, root(State), k)} :
        /\ Becomes(r)
        /\ last' = [op |-> "insert_child", k |-> k,
                    res |-> IF r.err THEN "assert" ELSE "returned"]
    /\ UNCHANGED <<geometry, ref, calls, ones, valid, viewVars>>

NextNode ==
    \/ \E index \in 0..size : FindInsertPoint(index)
    \/ \E ch \in 0..degree : FindAdjacentChildren(ch)
    \/ \E begin \in 0..degree, end \in 1..(degree + 1) : RedistributeBits(begin, end)
    \/ \E begin \in 0..degree, end \in 1..(degree + 1) : RedistributeKeys(begin, end)
    \/ \E k \in 0..degree : InsertChild(k)

SpecNode == InitNode /\ [][NextNode]_vars

\* ------------------------------------------------- the claims on the tree
\* C1: after inserts that each satisfy i <= size and size < capacity, the
\* vector is alive and access(j), for every j < size, returns the j-th element
\* of the reference list the same inserts built.
C1_InsertRefinesList ==
    valid =>
        /\ status = "running"
        /\ \A j \in 0..(Len(ref) - 1) :
              access(State, root(State), j) = [res |-> "bit", bit |-> ref[j + 1]]

\* C2: after valid inserts every call has returned, size is the number of
\* insert calls made and rank the number of those whose bit was 1.
C2_SizeRankCount ==
    valid => (last.res # "assert" /\ size = calls /\ rank = ones)

\* C3: access(i) with i >= size fails with OutOfRange and changes nothing of
\* the tree.
C3_AccessOutOfRange ==
    [][(last'.op = "access" /\ last'.index >= size)
           => (last'.res = "OutOfRange" /\ UNCHANGED treeVars)]_vars

\* An access beyond the end of a vector that holds bits was answered.
C3_Witness ==
    /\ last.op = "access"
    /\ size > 0
    /\ last.index >= size
    /\ last.res = "OutOfRange"

\* C4: insert(i, b) with i > size surfaces OutOfRange and leaves size, rank,
\* the cumulative counters and every leaf unchanged.
C4_InsertOutOfRange ==
    [][(last'.op = "insert" /\ last'.index > size)
           => (last'.res = "OutOfRange" /\ UNCHANGED <<size, rank, sizes, ranks, leaves>>)]_vars

\* C5: insert called when size = capacity surfaces Overflow and leaves the
\* vector unchanged; size never exceeds capacity.
C5_InsertOverflow ==
    [][/\ size' <= capacity'
       /\ (last'.op = "insert" /\ size = capacity)
             => (last'.res = "Overflow" /\ UNCHANGED treeVars)]_vars

\* The subtree t holds exactly the given bits: its counters are the running
\* totals of the bits and of the 1 bits of its children, absent children hold
\* nothing, and its leaves hold the bits, in order.
RECURSIVE counters_hold(_, _, _)
counters_hold(s, t, bits) ==
    IF is_leaf(t) THEN Len(bits) <= W /\ leaf(s, t) = WordOfBits(bits)
    ELSE \A k \in 0..degree :
        Let(child(s, t, k), LAMBDA c :
        Let(IF k = 0 THEN 0 ELSE sizes_at(s, t, k - 1), LAMBDA lo :
            /\ c.size >= 0
            /\ lo + c.size <= Len(bits)
            /\ k < degree =>
                /\ sizes_at(s, t, k) = lo + c.size
                /\ ranks_at(s, t, k) = SumSeq(SubSeq(bits, 1, lo + c.size))
            /\ k = degree => lo + c.size = Len(bits)
            /\ IF pointers_at(s, t, k) = 0 THEN c.size = 0
               ELSE counters_hold(s, c, SubSeq(bits, lo + 1, lo + c.size))))

\* C12: at the end of every insert call of a sequence of valid inserts, in
\* every node reachable from the root sizes[k] is the number of bits and
\* ranks[k] the number of 1 bits stored in the children 0..k, absent children
\* counting as 0.
C12_CumulativeCounters ==
    valid => /\ status = "running"
             /\ counters_hold(State, root(State), ref)

\* The fewest bits a leaf holds: ceil(b * (W - b) / (b + 1)) - 1.
minimum_fill == CeilDiv(leaves_buffer * (W - leaves_buffer), leaves_buffer + 1) - 1

\* The child slots of a node that hold a child.
present(s, t) == {k \in 0..degree : pointers_at(s, t, k) # 0}

\* Every leaf below t that has a sibling holds at least minimum_fill bits.
RECURSIVE leaves_filled(_, _)
leaves_filled(s, t) ==
    IF t.height = 1
    THEN Cardinality(present(s, t)) > 1 =>
             \A k \in present(s, t) : child(s, t, k).size >= minimum_fill
    ELSE \A k \in present(s, t) : leaves_filled(s, child(s, t, k))

\* C13: at the end of every insert call of a sequence of valid inserts, every
\* leaf of a node with more than one leaf holds at least
\* ceil(b * (W - b) / (b + 1)) - 1 bits, also right after a redistribution.
C13_LeafMinimumFill ==
    (valid /\ status = "running") => leaves_filled(State, root(State))

\* The state s2 is the state s after a root split: the height is one more, the
\* words of the old root are those of a node that was free, and that node is
\* child 0 of the root.
root_was_split(s, s2) ==
    Let(root(s), LAMBDA t :
    Let([t EXCEPT !.index = s.free_node], LAMBDA old_root :
        /\ ~s2.err
        /\ s2.height = s.height + 1
        /\ s2.free_node = s.free_node + 1
        /\ old_root.index # 0
        /\ sizes_range(s2, old_root, 0, degree) = sizes_range(s, t, 0, degree)
        /\ ranks_range(s2, old_root, 0, degree) = ranks_range(s, t, 0, degree)
        /\ pointers_range(s2, old_root, 0, degree + 1)
              = pointers_range(s, t, 0, degree + 1)
        /\ is_root(s2, root(s2))
        /\ pointers_at(s2, root(s2), 0) = old_root.index))

\* C14: the root is node 0 at the height of the tree; the height starts at 1,
\* never decreases, and changes only in an insert that finds the root full,
\* whose root split raises it by exactly 1 after copying the sizes, ranks and
\* pointers of the old root to a newly allocated node, child 0 of the new root.
C14_HeightAndRoot ==
    /\ height = 1
    /\ [][/\ is_root(State, root(State))
          /\ height' = height \/ height' = height + 1
          /\ height' # height =>
                /\ last'.op = "insert"
                /\ nkeys(State, root(State)) = degree
                /\ root_was_split(State, split_root(State, root(State)))]_vars

\* An insert has split the root: the tree is two levels high and the root has
\* the copy of the old root, with its leaves, as its child 0.
C14_Witness ==
    /\ height = 2
    /\ last.op = "insert"
    /\ pointers_at(State, root(State), 0) = 1
    /\ pointers_at(State, [index |-> 1, height |-> 1], 0) # 0
    /\ sizes_at(State, [index |-> 1, height |-> 1], 0) > 0

\* C15: in a sequence of at most capacity valid inserts, construction
\* included, no more than nodes_count nodes and leaves_count + 1 leaves (the
\* null leaf among them) are allocated, and every index written to a pointer
\* field is below 2^p.
C15_AllocationBounds ==
    (valid /\ calls <= capacity) =>
        /\ free_node <= nodes_count
        /\ Len(leaves) <= leaves_count + 1
        /\ free_node - 1 < 2 ^ pointer_width
        /\ Len(leaves) - 1 < 2 ^ pointer_width

\* The leftmost counter of the root that is at least, or more than, the index;
\* degree when there is none.
first_size(index, strict) ==
    Let({k \in 0..(degree - 1) :
            IF strict THEN sizes_at(State, root(State), k) > index
            ELSE sizes_at(State, root(State), k) >= index}, LAMBDA ks :
        IF ks = {} THEN degree ELSE CHOOSE k \in ks : \A j \in ks : k <= j)

\* C16 as amended: find_insert_point(index) returns the leftmost child k with
\* sizes[k] >= index (d if there is none) and index - sizes[child - 1], or
\* index when child = 0: an index equal to the cumulative size of a child is
\* directed to the end of that child, not to the next child.
C16_InsertPointAtLeast ==
    last.op = "find_insert_point" =>
        /\ last.child = first_size(last.index, FALSE)
        /\ last.new_index =
              IF last.child > 0
              THEN last.index - sizes_at(State, root(State), last.child - 1)
              ELSE last.index

\* An index equal to the cumulative size of child 0 was directed to the end
\* of child 0, a leaf that holds bits and has a sibling that does.
C16_Witness ==
    /\ last.op = "find_insert_point"
    /\ height = 1
    /\ last.index > 0
    /\ last.index = sizes_at(State, root(State), 0)
    /\ sizes_at(State, root(State), 1) > last.index
    /\ last.child = 0
    /\ last.new_index = last.index

\* C16 as stated: the child is the leftmost k with sizes[k] > index.
C16_InsertPointBeyond ==
    last.op = "find_insert_point" =>
        /\ last.child = first_size(last.index, TRUE)
        /\ last.new_index =
              IF last.child > 0
              THEN last.index - sizes_at(State, root(State), last.child - 1)
              ELSE last.index

\* The buffer of the children of the root: b for leaves, b' for nodes.
buffer_of_root == IF height = 1 THEN leaves_buffer ELSE nodes_buffer

\* The slots of child i of the root: the most it holds, and what it uses.
max_slots == IF height = 1 THEN W ELSE degree

used_slots(i) ==
    IF pointers_at(State, root(State), i) = 0 THEN 0
    ELSE IF height = 1 THEN child(State, root(State), i).size
    ELSE nkeys(State, child(State, root(State), i))

\* The used and the free slots of the children [begin, end) of the root.
RECURSIVE used_in(_, _)
used_in(begin, end) ==
    IF begin >= end THEN 0 ELSE used_slots(begin) + used_in(begin + 1, end)

free_in(begin, end) == max_slots * (end - begin) - used_in(begin, end)

\* C17: find_adjacent_children(t, child) returns a window [begin, end) with
\* 0 <= begin <= child < end <= d + 1 and end - begin = buffer, for every
\* child position, child = buffer and child > buffer included.
C17_WindowHoldsChild ==
    last.op = "find_adjacent_children" =>
        /\ last.res = "returned"
        /\ 0 <= last.begin
        /\ last.begin <= last.child
        /\ last.child < last.end
        /\ last.end <= degree + 1
        /\ last.end - last.begin = buffer_of_root

\* C18: the count find_adjacent_children returns is the number of used slots
\* of the children of the window it returns, absent children counting as 0,
\* and no window of buffer adjacent children that contains child has a larger
\* free-slot sum.
C18_WindowCountAndMaximum ==
    last.op = "find_adjacent_children" =>
        /\ last.count = used_in(last.begin, last.end)
        /\ \A b \in 0..(degree + 1 - buffer_of_root) :
              (b <= last.child /\ last.child < b + buffer_of_root) =>
                  free_in(b, b + buffer_of_root) <= free_in(last.begin, last.end)

\* The size of child i of the root, 0 when it is absent.
bits_of(i) ==
    IF pointers_at(State, root(State), i) = 0 THEN 0
    ELSE child(State, root(State), i).size

\* The word of the leaf in slot i of the root.
leaf_of(i) == leaf(State, child(State, root(State), i))

\* C19: redistribute_bits(t, begin, end, total) returns; the used bits of the
\* leaves of the window, in child order, are the same sequence of total bits
\* after the call as before; every slot of the window has a leaf of
\* floor(total / (end - begin)) bits or one more, the larger leaves first; the
\* children outside the window are untouched.
C19_RedistributeBitsKeeps ==
    [][last'.op = "redistribute_bits" =>
        /\ last'.res = "returned"
        /\ gather_bits(State, root(State), last'.begin, last'.end)
              = (gather_bits(State, root(State), last.begin, last.end))'
        /\ Len(gather_bits(State, root(State), last'.begin, last'.end)) = last'.count
        /\ \A i \in last'.begin..(last'.end - 1) :
              /\ pointers_at(State, root(State), i)' # 0
              /\ bits_of(i)' - (last'.count \div (last'.end - last'.begin)) \in {0, 1}
              /\ i > last'.begin => bits_of(i)' <= bits_of(i - 1)'
        /\ \A i \in (0..degree) \ (last'.begin..(last'.end - 1)) :
              /\ pointers_at(State, root(State), i)' = pointers_at(State, root(State), i)
              /\ bits_of(i)' = bits_of(i)
              /\ pointers_at(State, root(State), i) # 0 => leaf_of(i)' = leaf_of(i)]_vars

\* The (size, rank, pointer) of the children the nodes in the slots
\* [begin, end) of the root hold, in order.
RECURSIVE present_keys(_, _, _, _)
present_keys(s, i, c, end) ==
    IF i >= end THEN <<>>
    ELSE IF c > degree THEN present_keys(s, i + 1, 0, end)
    ELSE (IF pointers_at(s, child(s, root(s), i), c) # 0
          THEN <<key_of(s, child(s, root(s), i), c)>>
          ELSE <<>>) \o present_keys(s, i, c + 1, end)

\* The sizes of the first n keys.
RECURSIVE sum_sizes(_, _)
sum_sizes(keys, n) == IF n = 0 THEN 0 ELSE sum_sizes(keys, n - 1) + keys[n].size

RECURSIVE sum_ranks(_, _)
sum_ranks(keys, n) == IF n = 0 THEN 0 ELSE sum_ranks(keys, n - 1) + keys[n].rank

\* C20: redistribute_keys(t, begin, end, total) returns; the (size, rank,
\* pointer) triples of the present grandchildren of the window, in order, are
\* the same after the call as before; every node of the window holds
\* floor(total / (end - begin)) of them or one more; the cumulative sizes and
\* ranks of every node are the prefix sums of the triples it holds.
C20_RedistributeKeysKeeps ==
    [][last'.op = "redistribute_keys" =>
        /\ last'.res = "returned"
        /\ present_keys(State, last'.begin, 0, last'.end)
              = (present_keys(State, last.begin, 0, last.end))'
        /\ \A i \in last'.begin..(last'.end - 1) :
              /\ keys_in(State, i, i + 1)'
                    - (last'.count \div (last'.end - last'.begin)) \in {0, 1}
              /\ \A j \in 0..(degree - 1) :
                    j < keys_in(State, i, i + 1)' =>
                      /\ sizes_at(State, child(State, root(State), i), j)'
                           = sum_sizes(present_keys(State, i, 0, i + 1), j + 1)'
                      /\ ranks_at(State, child(State, root(State), i), j)'
                           = sum_ranks(present_keys(State, i, 0, i + 1), j + 1)']_vars

\* C21: insert_child(k) on a node with a free slot returns; afterwards
\* pointers[k] is a non-zero index no child had, the child at k is empty, every
\* child that was at a position j >= k is at j + 1 with the same pointer, size
\* and rank, every child at a position j < k is unchanged, and the size and
\* the rank of the node are unchanged.
C21_InsertChildKeeps ==
    [][last'.op = "insert_child" =>
        /\ last'.res = "returned"
        /\ (pointers_at(State, root(State), last.k))' # 0
        /\ \A j \in 0..degree :
              pointers_at(State, root(State), j) # (pointers_at(State, root(State), last.k))'
        /\ (child(State, root(State), last.k).size)' = 0
        /\ (child(State, root(State), last.k).rank)' = 0
        /\ \A j \in 0..(degree - 1) :
              IF j < last'.k
              THEN child(State, root(State), j)' = child(State, root(State), j)
              ELSE pointers_at(State, root(State), j) # 0 =>
                     child(State, root(State), j + 1)' = child(State, root(State), j)
        /\ size' = size
        /\ rank' = rank]_vars

\* C23: in an insert on a tree built by valid inserts, a subtree that is full
\* at the entry of insert is the root, the parent of a child that must be
\* split has fewer than degree keys, and the child insert descends into after
\* the redistribution of a full child is not full.
C23_PreemptiveSplit ==
    [][(last'.op = "insert" /\ valid') =>
        \E p \in {path_of(last'.index, last'.bit)} :
            p.root_ok /\ p.parent_ok /\ p.room_ok]_vars

\* The call that split the root: the root it split holds degree keys over
\* leaves with room, the leaves an earlier call spread the bits of a full leaf
\* over before it went down into one of them, and the full node is split under
\* a parent of one key.
C23_Witness ==
    /\ last.op = "insert"
    /\ valid
    /\ height = 2
    /\ size > W
    /\ nkeys(State, root(State)) = 1
    /\ \E old \in {child(State, root(State), 0)} :
        /\ nkeys(State, old) = degree
        /\ \A c \in 0..(degree - 1) :
              /\ pointers_at(State, old, c) # 0
              /\ child(State, old, c).size < W

\* C24: a valid insert splits the root at most once and returns after it
\* descended as many levels as the tree is high.
C24_InsertTerminates ==
    [][(last'.op = "insert" /\ valid') =>
        \E p \in {path_of(last'.index, last'.bit)} :
            /\ p.splits <= 1
            /\ last'.res = "returned"
            /\ p.levels = height']_vars

\* C25: after valid inserts, up to size = capacity, every cumulative sizes
\* field of every node is below 2^(counter_width - 1): its flag bit is free.
C25_FlagBitFree ==
    (valid /\ status = "running") =>
        \A i \in DOMAIN sizes : sizes[i] < flag_bit

\* ------------------------------------------------------------- the bit view
\* The words of a container are numbers below 2^WV.  Shifts are products and
\* quotients by powers of two, a mask of the low n bits is lowbits(_, n), and
\* the OR of two words that share no bit is their sum.

\* The tree variables while only the views are in use.
NoTree ==
    /\ capacity = 0
    /\ counter_width = 0
    /\ pointer_width = 0
    /\ degree = 0
    /\ leaves_buffer = 0
    /\ nodes_buffer = 0
    /\ size = 0
    /\ rank = 0
    /\ height = 0
    /\ free_node = 0
    /\ sizes = <<>>
    /\ ranks = <<>>
    /\ pointers = <<>>
    /\ leaves = <<>>
    /\ status = "views"
    /\ ref = <<>>
    /\ calls = 0
    /\ ones = 0
    /\ valid = TRUE
    /\ last = NoCall

\* bitview::get(begin, end): the bits [begin, end), right-justified; the range
\* is at most WV bits long and lies in one word or straddles two.
get(cont, begin, end) ==
    Let(begin \div WV, LAMBDA k :
    Let(begin % WV, LAMBDA off :
    Let(end - begin, LAMBDA len :
        IF off + len <= WV
        THEN lowbits(cont[k + 1] \div (2 ^ off), len)
        ELSE (cont[k + 1] \div (2 ^ off))
             + lowbits(cont[k + 2], off + len - WV) * (2 ^ (WV - off)))))

\* A set that writes the part of the value that fits the word of begin and
\* drops the part that belongs to the next word.
set_within_word(cont, begin, end, value) ==
    Let(begin \div WV, LAMBDA k :
    Let(begin % WV, LAMBDA off :
    Let(Min(end - begin, WV - (begin % WV)), LAMBDA len :
        [cont EXCEPT ![k + 1] =
            lowbits(cont[k + 1], off)
            + lowbits(value, len) * (2 ^ off)
            + (cont[k + 1] \div (2 ^ (off + len))) * (2 ^ (off + len))])))

\* bitview::set(begin, end, value): the low end - begin bits of value are
\* written to the bits [begin, end); across a word boundary the low part goes
\* to the word of begin, the high part to the next word.
set(cont, begin, end, value) ==
    Let(begin \div WV, LAMBDA k :
    Let(begin % WV, LAMBDA off :
    Let(end - begin, LAMBDA len :
        IF off + len <= WV
        THEN [cont EXCEPT ![k + 1] =
                 lowbits(cont[k + 1], off)
                 + lowbits(value, len) * (2 ^ off)
                 + (cont[k + 1] \div (2 ^ (off + len))) * (2 ^ (off + len))]
        ELSE [cont EXCEPT
                 ![k + 1] = lowbits(cont[k + 1], off)
                            + lowbits(value, WV - off) * (2 ^ off),
                 ![k + 2] = (lowbits(value, len) \div (2 ^ (WV - off)))
                            + (cont[k + 2] \div (2 ^ (off + len - WV)))
                              * (2 ^ (off + len - WV))])))

\* bitview::get(i) and bitview::set(i, value) of one bit.
get_one(cont, i) == (cont[(i \div WV) + 1] \div (2 ^ (i % WV))) % 2

set_one(cont, i, value) ==
    Let(get_one(cont, i), LAMBDA old :
        [cont EXCEPT ![(i \div WV) + 1] = @ + (value - old) * (2 ^ (i % WV))])

\* A copy that reads every slice from the start of the source range.
RECURSIVE set_from_begin(_, _, _, _, _)
set_from_begin(dst, from, begin, end, to) ==
    IF begin >= end THEN dst
    ELSE Let(Min(WV, end - begin), LAMBDA step :
         Let(set(dst, to, to + step, get(from, 0, step)), LAMBDA d :
             set_from_begin(d, from, begin + step, end, to + step)))

\* bitview::set(other, begin, end, to): the bits [begin, end) of the other
\* view are copied to the bits starting at to, a slice of at most one word
\* at a time.
RECURSIVE set_from(_, _, _, _, _)
set_from(dst, from, begin, end, to) ==
    IF begin >= end THEN dst
    ELSE Let(Min(WV, end - begin), LAMBDA step :
         Let(set(dst, to, to + step, get(from, begin, begin + step)), LAMBDA d :
             set_from(d, from, begin + step, end, to + step)))

\* A sum that reports a carry only when the sum exceeds 2^width.
sum_without_equal(a, b, c, width) ==
    Let(a + b + (IF c THEN 1 ELSE 0), LAMBDA s :
        [result |-> s % (2 ^ width), carry |-> s > 2 ^ width])

\* bitview::sum_with_carry(a, b, carry, width): the sum of the two operands
\* and the incoming carry on width bits, and the carry out of them.
sum_with_carry(a, b, c, width) ==
    Let(a + b + (IF c THEN 1 ELSE 0), LAMBDA s :
        [result |-> s % (2 ^ width), carry |-> s >= 2 ^ width])

\* A slice-wise sum that starts every slice without a carry.
RECURSIVE set_sum_no_carry(_, _, _, _, _, _)
set_sum_no_carry(dst, from, begin, end, to, carry) ==
    IF begin >= end THEN dst
    ELSE Let(Min(WV, end - begin), LAMBDA step :
         Let(sum_with_carry(get(dst, to, to + step),
                            get(from, begin, begin + step), FALSE, step),
             LAMBDA r :
         Let(set(dst, to, to + step, r.result), LAMBDA d :
             set_sum_no_carry(d, from, begin + step, end, to + step, r.carry))))

\* The loop of bitview::set_sum: slice by slice, the carry of a slice passed
\* on to the next one.
RECURSIVE set_sum_carry(_, _, _, _, _, _)
set_sum_carry(dst, from, begin, end, to, carry) ==
    IF begin >= end THEN dst
    ELSE Let(Min(WV, end - begin), LAMBDA step :
         Let(sum_with_carry(get(dst, to, to + step),
                            get(from, begin, begin + step), carry, step),
             LAMBDA r :
         Let(set(dst, to, to + step, r.result), LAMBDA d :
             set_sum_carry(d, from, begin + step, end, to + step, r.carry))))

\* bitview::set_sum(other, begin, end, to).
set_sum(dst, from, begin, end, to) ==
    set_sum_carry(dst, from, begin, end, to, FALSE)

\* The calls of sum_with_carry made by test_word and the results it asserts.
test_sums ==
    { [a |-> 200, b |-> 56, c |-> FALSE, width |-> 8, result |-> 0, carry |-> TRUE],
      [a |-> 200, b |-> 56, c |-> FALSE, width |-> 9, result |-> 256, carry |-> FALSE],
      [a |-> 254, b |-> 1, c |-> TRUE, width |-> 8, result |-> 0, carry |-> TRUE] }

\* ------------------------------------------------------ bit view: the runs
\* The number of bits of the bit views.
ViewBits == MaxWords * WV

\* The words the containers start with: all bits clear, all set, alternating.
WordPatterns == {0, 5, 10, 15}

\* The contents the first view starts with.
Contents == { [k \in 1..MaxWords |-> p] : p \in WordPatterns }
            \cup { [k \in 1..MaxWords |-> IF k % 2 = 1 THEN 9 ELSE 6] }

\* The contents the second view starts with.
Contents2 == { [k \in 1..MaxWords |-> p] : p \in {0, 15} }
             \cup { [k \in 1..MaxWords |-> IF k % 2 = 1 THEN 3 ELSE 12] }

InitBits ==
    /\ NoTree
    /\ bv \in Contents
    /\ bv2 \in Contents2
    /\ pw = 0
    /\ pn = 0
    /\ ret = [op |-> "none"]

\* w.set(begin, end, value) followed by w.get(begin, end).
SetRange(begin, end, value) ==
    /\ ret.op = "none"
    /\ begin < end /\ end - begin <= WV /\ end <= ViewBits
    /\ \E c \in {set(bv, begin, end, value)} :
        /\ bv' = c
        /\ ret' = [op |-> "set", begin |-> begin, end |-> end, value |-> value,
                   result |-> get(c, begin, end)]
    /\ UNCHANGED <<treeVars, callVars, bv2, pw, pn>>

\* w.set(i, value) followed by w.get(i).
SetBit(i, value) ==
    /\ ret.op = "none"
    /\ \E c \in {set_one(bv, i, value)} :
        /\ bv' = c
        /\ ret' = [op |-> "set_bit", begin |-> i, end |-> i + 1, value |-> value,
                   result |-> get_one(c, i)]
    /\ UNCHANGED <<treeVars, callVars, bv2, pw, pn>>

\* w2.set(w, begin, end, to).
Copy(begin, end, to) ==
    /\ ret.op = "none"
    /\ begin < end /\ end <= ViewBits /\ to + (end - begin) <= ViewBits
    /\ \E c \in {set_from(bv2, bv, begin, end, to)} :
        /\ bv2' = c
        /\ ret' = [op |-> "copy", begin |-> begin, end |-> end, to |-> to]
    /\ UNCHANGED <<treeVars, callVars, bv, pw, pn>>

\* w.sum_with_carry(a, b, c, width).
SumWithCarry(a, b, c, width) ==
    /\ ret.op = "none"
    /\ \E r \in {sum_with_carry(a, b, c, width)} :
        ret' = [op |-> "sum_with_carry", a |-> a, b |-> b, c |-> c,
                width |-> width, result |-> r.result, carry |-> r.carry]
    /\ UNCHANGED <<treeVars, callVars, bv, bv2, pw, pn>>

\* w2.set_sum(w, begin, end, to).
SetSum(begin, end, to) ==
    /\ ret.op = "none"
    /\ begin < end /\ end <= ViewBits /\ to + (end - begin) <= ViewBits
    /\ \E c \in {set_sum(bv2, bv, begin, end, to)} :
        /\ bv2' = c
        /\ ret' = [op |-> "set_sum", begin |-> begin, end |-> end, to |-> to]
    /\ UNCHANGED <<treeVars, callVars, bv, pw, pn>>

\* The arguments of the sum_with_carry calls of the runs: the calls of
\* test_word and every call on operands of at most WV bits.
SumCalls ==
    { [a |-> t.a, b |-> t.b, c |-> t.c, width |-> t.width] : t \in test_sums }
    \cup [a : 0..(2 ^ WV - 1), b : {0, 1, 2 ^ WV - 1}, c : BOOLEAN, width : 1..WV]

Positions == 0..(ViewBits - 1)

NextBits ==
    \/ \E begin \in Positions, end \in 1..ViewBits, value \in 0..(2 ^ (WV + 1) - 1) :
        SetRange(begin, end, value)
    \/ \E i \in Positions, value \in {0, 1} : SetBit(i, value)
    \/ \E begin \in Positions, end \in 1..ViewBits, to \in Positions :
        Copy(begin, end, to)
    \/ \E s \in SumCalls : SumWithCarry(s.a, s.b, s.c, s.width)
    \/ \E begin \in Positions, end \in 1..ViewBits, to \in Positions :
        SetSum(begin, end, to)

SpecBits == InitBits /\ [][NextBits]_vars

\* ---------------------------------------------------------- the packed view
\* The bitwise AND and OR of two words of n bits.
RECURSIVE bit_and(_, _, _)
bit_and(x, y, n) ==
    IF n = 0 THEN 0
    ELSE (x % 2) * (y % 2) + 2 * bit_and(x \div 2, y \div 2, n - 1)

RECURSIVE bit_or(_, _, _)
bit_or(x, y, n) ==
    IF n = 0 THEN 0
    ELSE Max(x % 2, y % 2) + 2 * bit_or(x \div 2, y \div 2, n - 1)

\* popcount of a word of the container.
RECURSIVE popcount_word(_)
popcount_word(x) == IF x = 0 THEN 0 ELSE (x % 2) + popcount_word(x \div 2)

\* packed_view::compute_field_mask: a 1 in the lowest bit of every field.
RECURSIVE field_mask_loop(_, _, _)
field_mask_loop(mask, width, i) ==
    IF i = 0 THEN mask
    ELSE field_mask_loop(lowbits(mask * (2 ^ width), WV) + 1, width, i - 1)

compute_field_mask(width) == field_mask_loop(0, width, WV \div width)

field_mask(width) == compute_field_mask(width)

\* packed_view::flag_mask: a 1 in the highest bit of every field.
flag_mask(width) == lowbits(field_mask(width) * (2 ^ (width - 1)), WV)

\* packed_view::get(begin, end): the fields [begin, end) in one word.
packed_get(cont, width, begin, end) == get(cont, begin * width, end * width)

\* packed_view::set(begin, end, value).
packed_set(cont, width, begin, end, value) ==
    set(cont, begin * width, end * width, value)

\* A step of find that compares the fields without setting their flag bits.
find_step_no_flag(cont, width, p, step, value) ==
    Let(packed_get(cont, width, p, p + step), LAMBDA word :
        popcount_word(lowbits(bit_and(flag_mask(width),
                                      (word - value) % (2 ^ WV), WV),
                              step * width)))

\* The body of the loop of packed_view::find: the number of the step fields
\* from p on whose flag bit survives the subtraction of the broadcast value.
find_step(cont, width, p, step, value) ==
    Let(bit_or(packed_get(cont, width, p, p + step), flag_mask(width), WV),
        LAMBDA word :
        popcount_word(lowbits(bit_and(flag_mask(width),
                                      (word - value) % (2 ^ WV), WV),
                              step * width)))

\* The loop of packed_view::find.
RECURSIVE find_loop(_, _, _, _, _, _, _, _)
find_loop(cont, width, p, end, len, rem, value, result) ==
    IF p >= end THEN result
    ELSE Let(IF len < WV \div width THEN rem ELSE WV \div width, LAMBDA step :
             find_loop(cont, width, p + step, end, len - step, rem, value,
                       result - find_step(cont, width, p, step, value)))

\* packed_view::find(begin, end, value).
packed_find(cont, width, begin, end, value) ==
    find_loop(cont, width, begin, end, end - begin,
              (end - begin) % (WV \div width),
              lowbits(field_mask(width) * lowbits(value, width - 1), WV),
              end - begin)

\* The loop of packed_view::repeat: the broadcast value written a chunk of at
\* most a word of fields at a time; p and len are in bits.
RECURSIVE repeat_loop(_, _, _, _, _, _, _)
repeat_loop(cont, p, end, len, rem, bits_per_word, value) ==
    IF p >= end THEN cont
    ELSE Let(IF len < bits_per_word THEN rem ELSE bits_per_word, LAMBDA step :
             repeat_loop(set(cont, p, p + step, value), p + step, end, len - step,
                         rem, bits_per_word, value))

\* A repeat that writes the pattern to the first field of every chunk only.
packed_repeat_once(cont, width, begin, end, pattern) ==
    Let((WV \div width) * width, LAMBDA bits_per_word :
        repeat_loop(cont, begin * width, end * width, (end - begin) * width,
                    ((end - begin) * width) % bits_per_word, bits_per_word,
                    lowbits(pattern, width)))

\* packed_view::repeat(begin, end, pattern).
packed_repeat(cont, width, begin, end, pattern) ==
    Let((WV \div width) * width, LAMBDA bits_per_word :
        repeat_loop(cont, begin * width, end * width, (end - begin) * width,
                    ((end - begin) * width) % bits_per_word, bits_per_word,
                    field_mask(width) * lowbits(pattern, width)))

\* --------------------------------------------------- packed view: the runs
\* The container of a view of the given fields, each written by set.
RECURSIVE pack(_, _, _, _)
pack(cont, width, fields, i) ==
    IF i > Len(fields) THEN cont
    ELSE pack(packed_set(cont, width, i - 1, i, fields[i]), width, fields, i + 1)

\* packed_view(width, size): width * size bits, all clear.
packed_view(width, n) == [k \in 1..CeilDiv(width * n, WV) |-> 0]

InitPacked ==
    /\ NoTree
    /\ pw \in 1..(WV - 1)
    /\ pn \in 1..(MaxBits \div pw)
    /\ \E fields \in [1..pn -> 0..(2 ^ pw - 1)] :
        bv = pack(packed_view(pw, pn), pw, fields, 1)
    /\ bv2 = <<>>
    /\ ret = [op |-> "none"]

\* v.find(0, v.size(), value).
Find(value) ==
    /\ ret.op = "none"
    /\ ret' = [op |-> "find", value |-> value,
               result |-> packed_find(bv, pw, 0, pn, value)]
    /\ UNCHANGED <<treeVars, callVars, bv, bv2, pw, pn>>

\* v(begin, end) = pattern.
Repeat(begin, end, pattern) ==
    /\ ret.op = "none"
    /\ begin < end /\ end <= pn
    /\ bv' = packed_repeat(bv, pw, begin, end, pattern)
    /\ ret' = [op |-> "repeat", begin |-> begin, end |-> end, value |-> pattern]
    /\ UNCHANGED <<treeVars, callVars, bv2, pw, pn>>

\* range_reference::operator=(const_range_reference): the range [to, ...) of
\* the view is assigned the range [begin, end); _begin and _end are handed to
\* the bit view as they are.
range_assign(cont, begin, end, to) == set_from(cont, cont, begin, end, to)

\* range_reference::operator=(range_reference): the range [to, to_end) is
\* assigned const_range_reference(*this).
range_assign_ref(cont, begin, end, to, to_end) == range_assign(cont, to, to_end, to)

\* v(to, to + end - begin) = v(begin, end), the source given as a const or as
\* a mutable range reference; the two ranges do not overlap.
CopyRange(begin, end, to, mutable) ==
    /\ ret.op = "none"
    /\ begin < end /\ end <= pn /\ to + (end - begin) <= pn
    /\ (end <= to \/ to + (end - begin) <= begin)
    /\ bv' = IF mutable
             THEN range_assign_ref(bv, begin, end, to, to + (end - begin))
             ELSE range_assign(bv, begin, end, to)
    /\ ret' = [op |-> "copy_range", begin |-> begin, end |-> end, to |-> to,
               mutable |-> mutable]
    /\ UNCHANGED <<treeVars, callVars, bv2, pw, pn>>

NextPacked ==
    \/ \E value \in 0..(2 ^ WV - 1) : Find(value)
    \/ \E begin \in 0..(pn - 1), end \in 1..pn, pattern \in 0..(2 ^ WV - 1) :
        Repeat(begin, end, pattern)
    \/ \E begin \in 0..(pn - 1), end \in 1..pn, to \in 0..(pn - 1), mutable \in BOOLEAN :
        CopyRange(begin, end, to, mutable)

SpecPacked == InitPacked /\ [][NextPacked]_vars

\* ----------------------------------------------- the claims on the views
\* The number held by the bits [begin, end) of a container, bit by bit.
RECURSIVE range_value(_, _, _)
range_value(cont, begin, end) ==
    IF begin >= end THEN 0
    ELSE get_one(cont, begin) + 2 * range_value(cont, begin + 1, end)

\* C6: after set(b, e, v) on a bit view, get(b, e) returns lowbits(v, e - b)
\* and every bit outside [b, e) keeps its value, also when the range straddles
\* two words; the same holds for set(i, v) and get(i) of a single bit.
C6_SetGetRoundTrip ==
    [][ret'.op \in {"set", "set_bit"} =>
        /\ ret'.result = lowbits(ret'.value, ret'.end - ret'.begin)
        /\ \A i \in Positions \ (ret'.begin..(ret'.end - 1)) :
            get_one(bv', i) = get_one(bv, i)]_vars

\* A set of a range that straddles two words, of a value with bits beyond the
\* range, read back by get.
C6_Witness ==
    /\ ret.op = "set"
    /\ (ret.begin % WV) + (ret.end - ret.begin) > WV
    /\ ret.value >= 2 ^ (ret.end - ret.begin)
    /\ ret.result = lowbits(ret.value, ret.end - ret.begin)
    /\ ret.result > 1
    /\ bv \notin Contents

\* C7: after dst.set(src, b, e, d) the bits [d, d + (e - b)) of dst are the
\* bits [b, e) of src (so get agrees on ranges of at most a word), the bits of
\* dst outside that range and the whole of src are unchanged, whatever the
\* alignment of b and d.
C7_CopyAcrossViews ==
    [][ret'.op = "copy" =>
        /\ \A i \in 0..(ret'.end - ret'.begin - 1) :
            get_one(bv2', ret'.to + i) = get_one(bv, ret'.begin + i)
        /\ ret'.end - ret'.begin <= WV =>
            get(bv2', ret'.to, ret'.to + ret'.end - ret'.begin)
                = get(bv, ret'.begin, ret'.end)
        /\ \A i \in Positions \ (ret'.to..(ret'.to + ret'.end - ret'.begin - 1)) :
            get_one(bv2', i) = get_one(bv2, i)
        /\ bv' = bv]_vars

\* A copy of more than a word between ranges of different alignment that
\* changed the destination.
C7_Witness ==
    /\ ret.op = "copy"
    /\ ret.end - ret.begin > WV
    /\ ret.begin % WV # ret.to % WV
    /\ ret.begin % WV # 0 /\ ret.to % WV # 0
    /\ bv2 \notin Contents2
    /\ range_value(bv2, ret.to, ret.to + ret.end - ret.begin)
        = range_value(bv, ret.begin, ret.end)

C9_SetSumAddsRanges ==
    [][ret'.op = "set_sum" =>
        range_value(bv2', ret'.to, ret'.to + ret'.end - ret'.begin)
            = (range_value(bv2, ret'.to, ret'.to + ret'.end - ret'.begin)
               + range_value(bv, ret'.begin, ret'.end))
              % (2 ^ (ret'.end - ret'.begin))]_vars

\* A sum over more than a word, at different alignments in the two views,
\* whose lowest word wrapped, the carry having gone to the next word.
C9_Witness ==
    /\ ret.op = "set_sum"
    /\ ret.end - ret.begin > WV
    /\ ret.to % WV # 0
    /\ ret.to % WV # ret.begin % WV
    /\ range_value(bv2, ret.to, ret.to + WV) < range_value(bv, ret.begin, ret.begin + WV)
    /\ range_value(bv2, ret.to + WV, ret.to + ret.end - ret.begin) > 0

\* The fields of the packed view laid over bv.
field(i) == packed_get(bv, pw, i, i + 1)

\* C10 as amended: find(0, n, v) on a packed view of width w < W returns the
\* number of fields whose low w - 1 bits are a number strictly less than the
\* low w - 1 bits of v: the flag bit of the fields and of the threshold is
\* ignored, over one chunk or several.
C10_FindCountsBelowFlag ==
    ret.op = "find" =>
        ret.result = Cardinality({i \in 0..(pn - 1) :
                        lowbits(field(i), pw - 1) < lowbits(ret.value, pw - 1)})

\* A find over more than one chunk on a view with a field whose flag bit is
\* set, which counted some fields and not others.
C10_Witness ==
    /\ ret.op = "find"
    /\ pw >= 2
    /\ pn > WV \div pw
    /\ \E i \in 0..(pn - 1) : field(i) >= 2 ^ (pw - 1)
    /\ ret.result > 0 /\ ret.result < pn

\* C10 as stated: find(0, n, v) returns the number of fields strictly less
\* than lowbits(v, w).
C10_FindCountsBelow ==
    ret.op = "find" =>
        ret.result = Cardinality({i \in 0..(pn - 1) :
                        field(i) < lowbits(ret.value, pw)})

\* C11: after repeat(begin, end, v) every field of [begin, end) reads
\* lowbits(v, w) and every field outside [begin, end) is unchanged, whatever
\* the width and the length of the range, also when the length is greater than
\* floor(W/w) or not a multiple of it.
C11_RepeatFillsRange ==
    [][ret'.op = "repeat" =>
        \A i \in 0..(pn - 1) :
            packed_get(bv', pw, i, i + 1) =
                IF ret'.begin <= i /\ i < ret'.end THEN lowbits(ret'.value, pw)
                ELSE packed_get(bv, pw, i, i + 1)]_vars

\* A repeat of a value with a set bit over more than a word of fields, not a
\* whole number of words, that starts after a field it left different.
C11_Witness ==
    /\ ret.op = "repeat"
    /\ ret.end - ret.begin > WV \div pw
    /\ (ret.end - ret.begin) % (WV \div pw) # 0
    /\ ret.begin > 0
    /\ lowbits(ret.value, pw) # 0
    /\ ret.value >= 2 ^ pw
    /\ field(ret.begin - 1) # lowbits(ret.value, pw)
    /\ \A i \in ret.begin..(ret.end - 1) : field(i) = lowbits(ret.value, pw)

\* C22: assigning the fields [sb, se) of a source range to the range that
\* starts at db makes field db + i equal to the source field sb + i for every
\* i < se - sb and leaves every other field as it was, the source given as a
\* const or as a mutable range reference.
C22_RangeCopy ==
    [][ret'.op = "copy_range" =>
        \A i \in 0..(pn - 1) :
            packed_get(bv', pw, i, i + 1) =
                IF ret'.to <= i /\ i < ret'.to + (ret'.end - ret'.begin)
                THEN packed_get(bv, pw, ret'.begin + (i - ret'.to),
                                ret'.begin + (i - ret'.to) + 1)
                ELSE packed_get(bv, pw, i, i + 1)]_vars

====
